---- MODULE Spec2Model ----
(***************************************************************************)
(* Model of the KEM wrapper of oqs-rs (oqs/src/kem.rs): the algorithm      *)
(* catalog, the Kem handle that owns one native OQS_KEM descriptor, the    *)
(* length-checked borrowed-buffer factories and the operation pipeline     *)
(* (keypair, encapsulate, split encapsulation, decapsulate).               *)
(*                                                                         *)
(* The native library (liboqs, reached through crate::ffi) is not part of  *)
(* kem.rs.  It is modelled from the interface contract of the              *)
(* specification: a descriptor table, an enablement probe, acquisition and *)
(* release, and entry points that fill caller-supplied buffers and return  *)
(* a status.  The entry points compute a small KEM over bytes modulo       *)
(* Modulus, so that byte equality of shared secrets can be refuted.        *)
(***************************************************************************)
EXTENDS Integers, Sequences, FiniteSets, TLC

(* ------------------------------ bounds --------------------------------- *)

\* Bytes range over 0..MaxByte.
MaxByte == 1

\* Threads sharing the handle by reference.
NumThreads == 2

\* Descriptors the native library hands out over a run.
MaxDesc == 1

Modulus == MaxByte + 1
Byte == 0 .. MaxByte
Threads == 1 .. NumThreads
DescPtrs == 1 .. MaxDesc

\* A byte of a reserved allocation that nothing has written yet.
Uninit == -1

(* ------------------------- Algorithm catalog --------------------------- *)

\* Three representatives of the enum generated by implement_kems!.
Algorithm == {"SikeP434Compressed", "Kyber512", "BikeL1"}

algorithm_to_id(algorithm) ==
    CASE algorithm = "BikeL1" -> "OQS_KEM_alg_bike_l1"
      [] algorithm = "Kyber512" -> "OQS_KEM_alg_kyber_512"
      [] algorithm = "SikeP434Compressed" -> "OQS_KEM_alg_sike_p434_compressed"

Ids == {algorithm_to_id(a) : a \in Algorithm}

(* --------------------- native library (from the spec) ------------------ *)

\* Entry points of a descriptor; every field is an Option in the binding.
PipelineFns == {"keypair", "keypair_async", "encaps", "async_encaps",
                "encaps_ciphertext", "encaps_shared_secret", "decaps"}
HookFns == {"init", "deinit"}

\* The descriptor the native library builds for an identifier: the five
\* declared lengths, the security level, the IND-CCA flag and the entry
\* points it fills in.  Only the SIKE family defines setup/teardown hooks.
OQS_KEM(id) ==
    CASE id = "OQS_KEM_alg_sike_p434_compressed" ->
           [id |-> id, length_public_key |-> 2, length_secret_key |-> 1,
            length_ciphertext |-> 1, length_shared_secret |-> 1,
            length_ephemeral_secret |-> 2, claimed_nist_level |-> 1,
            ind_cca |-> TRUE, fns |-> PipelineFns \cup HookFns]
      [] id = "OQS_KEM_alg_kyber_512" ->
           [id |-> id, length_public_key |-> 1, length_secret_key |-> 2,
            length_ciphertext |-> 1, length_shared_secret |-> 1,
            length_ephemeral_secret |-> 2, claimed_nist_level |-> 1,
            ind_cca |-> TRUE, fns |-> PipelineFns]
      [] id = "OQS_KEM_alg_bike_l1" ->
           [id |-> id, length_public_key |-> 1, length_secret_key |-> 1,
            length_ciphertext |-> 2, length_shared_secret |-> 1,
            length_ephemeral_secret |-> 1, claimed_nist_level |-> 1,
            ind_cca |-> FALSE, fns |-> PipelineFns]

\* OQS_STATUS values.
OQS_SUCCESS == 0
OQS_ERROR == -1

Fill(n, b) == [i \in 1 .. n |-> b]

\* The byte every position of a buffer carries (0 for an empty buffer).
First(s) == IF Len(s) = 0 THEN 0 ELSE s[1]

\* keygen with key seed k: the secret key carries k, the public key k + 1.
native_keypair(d, k) ==
    [status |-> OQS_SUCCESS,
     w1 |-> Fill(d.length_public_key, (k + 1) % Modulus),
     w2 |-> Fill(d.length_secret_key, k)]

\* encaps with randomness r against pk: ct hides r under the key, ss is r.
native_encaps(d, pk, r) ==
    [status |-> OQS_SUCCESS,
     w1 |-> Fill(d.length_ciphertext, (r + First(pk) + Modulus - 1) % Modulus),
     w2 |-> Fill(d.length_shared_secret, r)]

\* split encaps: the same ciphertext, and the ephemeral secret r + 1.
native_encaps_ciphertext(d, pk, r) ==
    [status |-> OQS_SUCCESS,
     w1 |-> Fill(d.length_ciphertext, (r + First(pk) + Modulus - 1) % Modulus),
     w2 |-> Fill(d.length_ephemeral_secret, (r + 1) % Modulus)]

\* finalisation: recovers r from es; fails when ct was not made from es, pk.
native_encaps_shared_secret(d, ct, es, pk) ==
    LET r == (First(es) + Modulus - 1) % Modulus
    IN  IF First(ct) = (r + First(pk) + Modulus - 1) % Modulus
        THEN [status |-> OQS_SUCCESS,
              w1 |-> Fill(d.length_shared_secret, r), w2 |-> <<>>]
        ELSE [status |-> OQS_ERROR, w1 |-> <<>>, w2 |-> <<>>]

\* decaps: removes the key from the ciphertext.
native_decaps(d, ct, sk) ==
    [status |-> OQS_SUCCESS,
     w1 |-> Fill(d.length_shared_secret,
                 (First(ct) + Modulus - First(sk)) % Modulus),
     w2 |-> <<>>]

\* What an entry point does with the argument pointers it is handed: args
\* are the input slices in the order of the C prototype, r the randomness
\* it draws.  fail is a failure of the randomness source, which only the
\* randomised entry points consult; wrote says whether a failing call had
\* filled the outputs before it gave up.
native_call(entry, d, args, r, fail, wrote) ==
    LET ok == CASE entry \in {"keypair", "keypair_async"} ->
                     native_keypair(d, r)
                [] entry \in {"encaps", "async_encaps"} ->
                     native_encaps(d, args[1], r)
                [] entry = "encaps_ciphertext" ->
                     native_encaps_ciphertext(d, args[1], r)
                [] entry = "encaps_shared_secret" ->
                     native_encaps_shared_secret(d, args[1], args[2], args[3])
                [] entry = "decaps" ->
                     native_decaps(d, args[1], args[2])
    IN  IF fail /\ entry \notin {"encaps_shared_secret", "decaps"}
        THEN [status |-> OQS_ERROR,
              w1 |-> IF wrote THEN ok.w1 ELSE <<>>,
              w2 |-> IF wrote THEN ok.w2 ELSE <<>>]
        ELSE ok

\* A setup/teardown hook: it takes no argument and returns a status; fail
\* is the hook's own failure.
native_hook(d, fail) ==
    [status |-> IF fail THEN OQS_ERROR ELSE OQS_SUCCESS]

(* ------------------------------ state ---------------------------------- *)

VARIABLES
    enabled,    \* identifiers compiled into the linked native library
    descs,      \* native heap: descriptor pointer -> its allocation record
    handle,     \* the Kem value the caller holds (or the trace of its end)
    thr         \* per thread: the call in flight and the last call's result

vars == <<enabled, descs, handle, thr>>

(* ---------------------------- native heap ------------------------------ *)

\* The descriptor memory of a pointer nobody has been handed.
NoKem ==
    [id |-> "", length_public_key |-> 0, length_secret_key |-> 0,
     length_ciphertext |-> 0, length_shared_secret |-> 0,
     length_ephemeral_secret |-> 0, claimed_nist_level |-> 0,
     ind_cca |-> FALSE, fns |-> {}]
NoDesc == [st |-> "unalloc", frees |-> 0, d |-> NoKem]

\* OQS_KEM_alg_is_enabled: 1 for an identifier of the build, 0 otherwise.
OQS_KEM_alg_is_enabled(id) == IF id \in enabled THEN 1 ELSE 0

\* OQS_KEM_new: the null pointer for an identifier that is not in the
\* build, otherwise the address of a fresh descriptor.
NullPtr == 0
FreePtrs == {p \in DescPtrs : descs[p].st = "unalloc"}
OQS_KEM_new(id) ==
    IF id \in enabled
    THEN CHOOSE p \in FreePtrs : \A q \in FreePtrs : p <= q
    ELSE NullPtr

\* The native heap after OQS_KEM_new returned p for id.
Allocated(p, id) ==
    IF p = NullPtr THEN descs
    ELSE [descs EXCEPT ![p] = [st |-> "live", frees |-> 0, d |-> OQS_KEM(id)]]

\* OQS_KEM_free(p): the allocation is returned; frees counts the calls.
OQS_KEM_free(heap, p) ==
    [heap EXCEPT ![p] = [@ EXCEPT !.st = "freed", !.frees = @ + 1]]

(* --------------------------- semantic buffers -------------------------- *)

\* with_capacity as vec![..; n] without the fill: the logical length is
\* already n when the buffer is handed to native code.
with_capacity_Resized(n) == [cap |-> n, len |-> n, mem |-> Fill(n, Uninit)]

\* Vec::with_capacity(n): n reserved bytes, logical length 0.
with_capacity(n) == [cap |-> n, len |-> 0, mem |-> Fill(n, Uninit)]

\* Vec::set_len(n): the logical length only; no byte is touched.
set_len(v, n) == [v EXCEPT !.len = n]

\* The bytes an owned buffer shows its holder: the first len bytes.
Bytes(v) == [i \in 1 .. v.len |-> IF i <= v.cap THEN v.mem[i] ELSE Uninit]

\* A native write of w through as_mut_ptr(): it lands in the reservation.
Write(v, w) ==
    [v EXCEPT !.mem = [i \in 1 .. v.cap |-> IF i <= Len(w) THEN w[i] ELSE @[i]]]

\* XRef::new(buf) of newtype_buffer!: a view over the slice itself.
Ref_new(buf) == [bytes |-> buf]

\* status_to_result of the crate root.
status_to_result(status) ==
    IF status = OQS_SUCCESS THEN "Ok" ELSE "OperationFailed"

(* ------------------------------ Kem handle ----------------------------- *)

\* The caller's handle slot before any Kem::new.
NoHandle == [st |-> "none", req |-> "", algorithm |-> "", kem |-> NullPtr]

\* is_enabled that takes any non-negative answer of the probe for yes.
is_enabled_AnyAnswer(algorithm) ==
    OQS_KEM_alg_is_enabled(algorithm_to_id(algorithm)) >= 0

\* Algorithm::is_enabled
is_enabled(algorithm) ==
    OQS_KEM_alg_is_enabled(algorithm_to_id(algorithm)) = 1

\* new without the NonNull check: a handle around whatever came back.
new_Unchecked(algorithm, kem) ==
    [st |-> "live", req |-> algorithm, algorithm |-> algorithm, kem |-> kem]

\* Kem::new, given the pointer OQS_KEM_new returned: NonNull::new(kem)
\* mapped to Err(AlgorithmDisabled) or Ok(Self { algorithm, kem }).  req
\* remembers the tag the caller asked for.
new(algorithm, kem) ==
    IF kem = NullPtr
    THEN [st |-> "disabled", req |-> algorithm, algorithm |-> "",
          kem |-> NullPtr]
    ELSE [st |-> "live", req |-> algorithm, algorithm |-> algorithm,
          kem |-> kem]

\* Kem::algorithm
algorithm(self) == self.algorithm

\* unsafe { self.kem.as_ref() }: the descriptor behind the pointer.
as_ref(kem) == descs[kem].d

\* The accessors of the declared lengths and properties.
claimed_nist_level(self) == as_ref(self.kem).claimed_nist_level
is_ind_cca(self) == as_ref(self.kem).ind_cca
length_public_key(self) == as_ref(self.kem).length_public_key
length_secret_key(self) == as_ref(self.kem).length_secret_key
length_ciphertext(self) == as_ref(self.kem).length_ciphertext
length_shared_secret(self) == as_ref(self.kem).length_shared_secret
length_ephemeral_secret(self) == as_ref(self.kem).length_ephemeral_secret

\* drop that never hands the descriptor back.
drop_Leak(self) == descs

\* impl Drop for Kem: the native heap after the handle's destruction.
drop(self) == OQS_KEM_free(descs, self.kem)

(* ----------------------- borrowed-buffer factories --------------------- *)

\* Option: <<>> is None, <<x>> is Some(x).
None == <<>>
Some(x) == <<x>>

secret_key_from_bytes(self, buf) ==
    IF length_secret_key(self) # Len(buf) THEN None ELSE Some(Ref_new(buf))

public_key_from_bytes(self, buf) ==
    IF length_public_key(self) # Len(buf) THEN None ELSE Some(Ref_new(buf))

ciphertext_from_bytes(self, buf) ==
    IF length_ciphertext(self) # Len(buf) THEN None ELSE Some(Ref_new(buf))

\* shared_secret_from_bytes checking against the secret-key length.
shared_secret_from_bytes_SecretKey(self, buf) ==
    IF length_secret_key(self) # Len(buf) THEN None ELSE Some(Ref_new(buf))

shared_secret_from_bytes(self, buf) ==
    IF length_shared_secret(self) # Len(buf) THEN None ELSE Some(Ref_new(buf))

ephemeral_secret_from_bytes(self, buf) ==
    IF length_ephemeral_secret(self) # Len(buf)
    THEN None ELSE Some(Ref_new(buf))

\* The five buffer kinds, and the factory of each.
Kinds == {"pk", "sk", "ct", "ss", "es"}

from_bytes(kind, self, buf) ==
    CASE kind = "sk" -> secret_key_from_bytes(self, buf)
      [] kind = "pk" -> public_key_from_bytes(self, buf)
      [] kind = "ct" -> ciphertext_from_bytes(self, buf)
      [] kind = "ss" -> shared_secret_from_bytes(self, buf)
      [] kind = "es" -> ephemeral_secret_from_bytes(self, buf)

\* The declared length of a kind, read off a descriptor.
Declared(d, kind) ==
    CASE kind = "pk" -> d.length_public_key
      [] kind = "sk" -> d.length_secret_key
      [] kind = "ct" -> d.length_ciphertext
      [] kind = "ss" -> d.length_shared_secret
      [] kind = "es" -> d.length_ephemeral_secret

\* Slices a caller can pass: every byte string up to one byte longer than
\* the longest declared length of the catalog.
MaxLen ==
    LET lens == {Declared(OQS_KEM(id), k) : id \in Ids, k \in Kinds}
    IN  1 + CHOOSE n \in lens : \A m \in lens : m <= n
Slices == UNION {[1 .. n -> Byte] : n \in 0 .. MaxLen}

(* --------------------------- operation pipeline ------------------------ *)

Ops == {"keypair", "keypair_async", "encapsulate", "async_encapsulate",
        "encapsulate_ciphertext", "encapsulate_shared_secret", "decapsulate"}

\* The caller-supplied inputs of each operation, by kind.
Uses(op) ==
    CASE op \in {"keypair", "keypair_async"} -> {}
      [] op \in {"encapsulate", "async_encapsulate",
                 "encapsulate_ciphertext"} -> {"pk"}
      [] op = "encapsulate_shared_secret" -> {"pk", "ct", "es"}
      [] op = "decapsulate" -> {"sk", "ct"}

\* The descriptor field each operation unwraps and calls.
EntryOf(op) ==
    CASE op = "keypair" -> "keypair"
      [] op = "keypair_async" -> "keypair_async"
      [] op = "encapsulate" -> "encaps"
      [] op = "async_encapsulate" -> "async_encaps"
      [] op = "encapsulate_ciphertext" -> "encaps_ciphertext"
      [] op = "encapsulate_shared_secret" -> "encaps_shared_secret"
      [] op = "decapsulate" -> "decaps"

\* Valid with the finalisation's check of the ephemeral secret left out.
Valid_NoEphemeralCheck(op, self, in) ==
    CASE op \in {"keypair", "keypair_async"} -> TRUE
      [] op \in {"encapsulate", "async_encapsulate",
                 "encapsulate_ciphertext"} ->
           ~(Len(in.pk) # length_public_key(self))
      [] op = "encapsulate_shared_secret" ->
           /\ ~(Len(in.pk) # length_public_key(self))
           /\ ~(Len(in.ct) # as_ref(self.kem).length_ciphertext)
      [] op = "decapsulate" ->
           ~(\/ Len(in.sk) # length_secret_key(self)
             \/ Len(in.ct) # length_ciphertext(self))

\* The length checks each operation makes before anything else.
Valid(op, self, in) ==
    CASE op \in {"keypair", "keypair_async"} -> TRUE
      [] op \in {"encapsulate", "async_encapsulate",
                 "encapsulate_ciphertext"} ->
           ~(Len(in.pk) # length_public_key(self))
      [] op = "encapsulate_shared_secret" ->
           /\ ~(Len(in.pk) # length_public_key(self))
           /\ ~(Len(in.ct) # as_ref(self.kem).length_ciphertext)
           /\ ~(Len(in.es) # as_ref(self.kem).length_ephemeral_secret)
      [] op = "decapsulate" ->
           ~(\/ Len(in.sk) # length_secret_key(self)
             \/ Len(in.ct) # length_ciphertext(self))

\* The capacities of the output buffers each operation reserves.
Reserved(op, kem) ==
    CASE op \in {"keypair", "keypair_async"} ->
           <<kem.length_public_key, kem.length_secret_key>>
      [] op \in {"encapsulate", "async_encapsulate"} ->
           <<kem.length_ciphertext, kem.length_shared_secret>>
      [] op = "encapsulate_ciphertext" ->
           <<kem.length_ciphertext, kem.length_ephemeral_secret>>
      [] op \in {"encapsulate_shared_secret", "decapsulate"} ->
           <<kem.length_shared_secret>>

\* ffi_args with the finalisation passing pk and es in each other's place.
ffi_args_Swapped(op, in) ==
    CASE op \in {"keypair", "keypair_async"} -> <<>>
      [] op \in {"encapsulate", "async_encapsulate",
                 "encapsulate_ciphertext"} -> <<in.pk>>
      [] op = "encapsulate_shared_secret" -> <<in.ct, in.pk, in.es>>
      [] op = "decapsulate" -> <<in.ct, in.sk>>

\* The input pointers each operation hands the entry point, in order.
ffi_args(op, in) ==
    CASE op \in {"keypair", "keypair_async"} -> <<>>
      [] op \in {"encapsulate", "async_encapsulate",
                 "encapsulate_ciphertext"} -> <<in.pk>>
      [] op = "encapsulate_shared_secret" -> <<in.ct, in.es, in.pk>>
      [] op = "decapsulate" -> <<in.ct, in.sk>>

\* Finalized with decapsulate giving set_len the secret-key length.
Finalized_SecretKeyLength(op, kem) ==
    CASE op \in {"keypair", "keypair_async"} ->
           <<kem.length_public_key, kem.length_secret_key>>
      [] op \in {"encapsulate", "async_encapsulate"} ->
           <<kem.length_ciphertext, kem.length_shared_secret>>
      [] op = "encapsulate_ciphertext" ->
           <<kem.length_ciphertext, kem.length_ephemeral_secret>>
      [] op = "encapsulate_shared_secret" -> <<kem.length_shared_secret>>
      [] op = "decapsulate" -> <<kem.length_secret_key>>

\* Finalized with the split encapsulation finalising its ephemeral secret
\* to the shared-secret length, as encapsulate does its second output.
Finalized_SharedSecretLength(op, kem) ==
    CASE op \in {"keypair", "keypair_async"} ->
           <<kem.length_public_key, kem.length_secret_key>>
      [] op \in {"encapsulate", "async_encapsulate",
                 "encapsulate_ciphertext"} ->
           <<kem.length_ciphertext, kem.length_shared_secret>>
      [] op \in {"encapsulate_shared_secret", "decapsulate"} ->
           <<kem.length_shared_secret>>

\* The lengths each operation gives set_len after a successful call.
Finalized(op, kem) ==
    CASE op \in {"keypair", "keypair_async"} ->
           <<kem.length_public_key, kem.length_secret_key>>
      [] op \in {"encapsulate", "async_encapsulate"} ->
           <<kem.length_ciphertext, kem.length_shared_secret>>
      [] op = "encapsulate_ciphertext" ->
           <<kem.length_ciphertext, kem.length_ephemeral_secret>>
      [] op \in {"encapsulate_shared_secret", "decapsulate"} ->
           <<kem.length_shared_secret>>

(* ------------------------------- callers ------------------------------- *)

NoIn == [pk |-> <<>>, sk |-> <<>>, ct |-> <<>>, es |-> <<>>, ss |-> <<>>]
NoNat == [r |-> 0, fail |-> FALSE, wrote |-> FALSE]

\* A thread that has made no call.
Idle ==
    [pc |-> "idle", op |-> "none", kind |-> "", kem |-> NullPtr, in |-> NoIn,
     bad |-> {}, outs |-> <<>>, status |-> OQS_SUCCESS, calls |-> 0,
     res |-> "none", nat |-> NoNat, view |-> None]

\* The inputs a caller passes to op on a handle with descriptor d: slices
\* of every length (the checks read lengths only, so zeros stand for any
\* content), and every content of the declared lengths.
OfEveryLength(op) ==
    [k \in Kinds |->
       IF k \in Uses(op) THEN {Fill(n, 0) : n \in 0 .. MaxLen} ELSE {<<>>}]
WellSized(op, d) ==
    [k \in Kinds |->
       IF k \in Uses(op) THEN [1 .. Declared(d, k) -> Byte] ELSE {<<>>}]
InputsOf(S) == [pk : S["pk"], sk : S["sk"], ct : S["ct"], es : S["es"],
                ss : S["ss"]]
Inputs(op, d) == InputsOf(OfEveryLength(op)) \cup InputsOf(WellSized(op, d))

\* The inputs of the threads that share a handle: buffers of the declared
\* lengths as the pipeline itself returns them, and empty slices.
AsReturned(op, d) ==
    [k \in Kinds |->
       IF k \in Uses(op) THEN {Fill(Declared(d, k), b) : b \in Byte}
       ELSE {<<>>}]
SharedInputs(op, d) == InputsOf(AsReturned(op, d)) \cup {NoIn}

\* The kinds of input whose length is not the declared one.
Mismatched(op, d, in) == {k \in Uses(op) : Len(in[k]) # Declared(d, k)}

\* The call of op on the handle up to the native call: the length checks,
\* the unwrap of the entry point and the reservation of the outputs.
Enter(op, self, in) ==
    LET kem == as_ref(self.kem)
        frame == [Idle EXCEPT !.op = op, !.kem = self.kem, !.in = in,
                              !.bad = Mismatched(op, kem, in)]
    IN  IF ~Valid(op, self, in)
        THEN [frame EXCEPT !.res = "InvalidLength"]
        ELSE IF EntryOf(op) \notin kem.fns
        THEN [frame EXCEPT !.res = "panic"]
        ELSE [frame EXCEPT
                !.pc = "native",
                !.outs = [i \in 1 .. Len(Reserved(op, kem)) |->
                            with_capacity(Reserved(op, kem)[i])]]

\* The output buffers after the entry point wrote through their pointers.
Written(outs, n) ==
    [i \in 1 .. Len(outs) |-> Write(outs[i], IF i = 1 THEN n.w1 ELSE n.w2)]

\* The native call of a frame, with the native side's choices nat.
Called(f, nat) ==
    LET n == native_call(EntryOf(f.op), as_ref(f.kem), ffi_args(f.op, f.in),
                         nat.r, nat.fail, nat.wrote)
    IN  [f EXCEPT !.pc = "returned", !.outs = Written(f.outs, n),
                  !.status = n.status, !.calls = @ + 1, !.nat = nat]

\* Returned without the ? on status_to_result: the status is dropped and
\* the buffers are finalised and returned whatever it was.
Returned_StatusIgnored(f) ==
    [f EXCEPT
       !.pc = "idle", !.res = "Ok", !.nat = NoNat,
       !.outs = [i \in 1 .. Len(f.outs) |->
                   set_len(f.outs[i], Finalized(f.op, as_ref(f.kem))[i])]]

\* The rest of the call: status_to_result(status)?, set_len, Ok(..).
Returned(f) ==
    IF status_to_result(f.status) # "Ok"
    THEN [f EXCEPT !.pc = "idle", !.res = status_to_result(f.status),
                   !.outs = <<>>, !.nat = NoNat]
    ELSE [f EXCEPT
            !.pc = "idle", !.res = "Ok", !.nat = NoNat,
            !.outs = [i \in 1 .. Len(f.outs) |->
                        set_len(f.outs[i],
                                Finalized(f.op, as_ref(f.kem))[i])]]

\* The native side's choices: randomness, a failure, what a failure wrote.
Randomised(entry) == entry \notin {"encaps_shared_secret", "decaps"}
Nats(entry) ==
    {nat \in [r : Byte, fail : BOOLEAN, wrote : BOOLEAN] :
        /\ nat.wrote => nat.fail
        /\ (nat.fail /\ ~nat.wrote) => nat.r = 0
        /\ ~Randomised(entry) => (nat.r = 0 /\ ~nat.fail)}

\* The setup and teardown operations of the handle.
Hooks == {"init", "deinit"}

\* Kem::init and Kem::deinit, as a whole call: the unwrap of the hook, the
\* call with no argument and the translation of its status.
Hook(name, self, fail) ==
    LET kem == as_ref(self.kem)
        frame == [Idle EXCEPT !.op = name, !.kem = self.kem]
    IN  IF name \notin kem.fns
        THEN [frame EXCEPT !.res = "panic"]
        ELSE LET status == native_hook(kem, fail).status
             IN  [frame EXCEPT !.status = status, !.calls = 1,
                               !.res = status_to_result(status)]

(* ------------------------------- actions ------------------------------- *)

\* The builds of the native library the program may be linked against.
Builds == {{"OQS_KEM_alg_sike_p434_compressed", "OQS_KEM_alg_kyber_512"},
           {"OQS_KEM_alg_bike_l1"}}

Init ==
    /\ enabled \in Builds
    /\ descs = [p \in DescPtrs |-> NoDesc]
    /\ handle = NoHandle
    /\ thr = [t \in Threads |-> Idle]

\* Kem::new(tag); the caller holds one handle at a time.
Kem_new(tag) ==
    /\ handle.st # "live"
    /\ FreePtrs # {}
    /\ LET kem == OQS_KEM_new(algorithm_to_id(tag))
       IN  /\ handle' = new(tag, kem)
           /\ descs' = Allocated(kem, algorithm_to_id(tag))
    /\ UNCHANGED <<enabled, thr>>

\* The handle goes out of scope; no borrow of it is alive.
Kem_drop ==
    /\ handle.st = "live"
    /\ \A t \in Threads : thr[t].pc = "idle"
    /\ descs' = drop(handle)
    /\ handle' = [handle EXCEPT !.st = "dropped"]
    /\ UNCHANGED <<enabled, thr>>

\* A thread calls one of the *_from_bytes factories on the shared handle.
FromBytes(t) ==
    /\ handle.st = "live"
    /\ thr[t] = Idle
    /\ \E kind \in Kinds, buf \in Slices :
         thr' = [thr EXCEPT ![t] =
                   [Idle EXCEPT !.op = "from_bytes", !.kind = kind,
                                !.kem = handle.kem, !.in[kind] = buf,
                                !.view = from_bytes(kind, handle, buf)]]
    /\ UNCHANGED <<enabled, descs, handle>>

\* A thread starts a pipeline operation on the handle; shared says whether
\* it is one of several threads that hold the handle by reference.
Call(t, op, shared) ==
    /\ handle.st = "live"
    /\ thr[t] = Idle
    /\ \E in \in IF shared THEN SharedInputs(op, as_ref(handle.kem))
                 ELSE Inputs(op, as_ref(handle.kem)) :
         thr' = [thr EXCEPT ![t] = Enter(op, handle, in)]
    /\ UNCHANGED <<enabled, descs, handle>>

keypair(t, shared) == Call(t, "keypair", shared)
keypair_async(t, shared) == Call(t, "keypair_async", shared)
encapsulate(t, shared) == Call(t, "encapsulate", shared)
async_encapsulate(t, shared) == Call(t, "async_encapsulate", shared)
encapsulate_ciphertext(t, shared) == Call(t, "encapsulate_ciphertext", shared)
encapsulate_shared_secret(t, shared) ==
    Call(t, "encapsulate_shared_secret", shared)
decapsulate(t, shared) == Call(t, "decapsulate", shared)

\* A thread calls Kem::init on the handle.
init(t) ==
    /\ handle.st = "live"
    /\ thr[t] = Idle
    /\ \E fail \in BOOLEAN :
         thr' = [thr EXCEPT ![t] = Hook("init", handle, fail)]
    /\ UNCHANGED <<enabled, descs, handle>>

\* A thread calls Kem::deinit on the handle.
deinit(t) ==
    /\ handle.st = "live"
    /\ thr[t] = Idle
    /\ \E fail \in BOOLEAN :
         thr' = [thr EXCEPT ![t] = Hook("deinit", handle, fail)]
    /\ UNCHANGED <<enabled, descs, handle>>

\* ffi_call with the outputs in one scratch area of the handle instead of
\* per-call buffers: the write also lands in every other call of the same
\* operation that is waiting for its own native call.
ffi_call_SharedScratch(t, nat) ==
    [u \in Threads |->
       IF u = t THEN Called(thr[t], nat)
       ELSE IF thr[u].pc = "native" /\ thr[u].op = thr[t].op
       THEN [thr[u] EXCEPT !.outs = Called(thr[t], nat).outs]
       ELSE thr[u]]

\* The callers' frames after thread t's native call: the entry point wrote
\* through the pointers of the buffers that call reserved, nowhere else.
ffi_call(t, nat) == [thr EXCEPT ![t] = Called(thr[t], nat)]

\* The entry point runs and returns its status.
Native(t) ==
    /\ thr[t].pc = "native"
    /\ \E nat \in Nats(EntryOf(thr[t].op)) : thr' = ffi_call(t, nat)
    /\ UNCHANGED <<enabled, descs, handle>>

\* The operation translates the status and returns to its caller.
Return(t) ==
    /\ thr[t].pc = "returned"
    /\ thr' = [thr EXCEPT ![t] = Returned(thr[t])]
    /\ UNCHANGED <<enabled, descs, handle>>

\* The caller lets go of what its last call returned, before its next call.
\* A caller whose call panicked makes no further call.
Forget(t) ==
    /\ thr[t].pc = "idle"
    /\ thr[t] # Idle
    /\ thr[t].res # "panic"
    /\ thr' = [thr EXCEPT ![t] = Idle]
    /\ UNCHANGED <<enabled, descs, handle>>

\* One caller: every operation, on every input.
Next ==
    \/ \E tag \in Algorithm : Kem_new(tag)
    \/ Kem_drop
    \/ FromBytes(1)
    \/ init(1)
    \/ deinit(1)
    \/ keypair(1, FALSE)
    \/ keypair_async(1, FALSE)
    \/ encapsulate(1, FALSE)
    \/ async_encapsulate(1, FALSE)
    \/ encapsulate_ciphertext(1, FALSE)
    \/ encapsulate_shared_secret(1, FALSE)
    \/ decapsulate(1, FALSE)
    \/ Native(1)
    \/ Return(1)
    \/ Forget(1)

Spec == Init /\ [][Next]_vars

\* Several threads run the pipeline on one handle they share by reference.
NextShared ==
    \/ \E tag \in Algorithm : Kem_new(tag)
    \/ Kem_drop
    \/ \E t \in Threads :
         \/ keypair(t, TRUE)
         \/ keypair_async(t, TRUE)
         \/ encapsulate(t, TRUE)
         \/ async_encapsulate(t, TRUE)
         \/ encapsulate_ciphertext(t, TRUE)
         \/ encapsulate_shared_secret(t, TRUE)
         \/ decapsulate(t, TRUE)
         \/ Native(t)
         \/ Return(t)
         \/ Forget(t)

SpecShared == Init /\ [][NextShared]_vars

(* ------------------------------- claims -------------------------------- *)

\* A handle value holding the descriptor pointer kem.
HandleAt(kem) ==
    [st |-> "live", req |-> "", algorithm |-> "", kem |-> kem]

\* A whole call of op with inputs in, run by itself: what it returns.
Run(op, self, in, nat) ==
    LET f == Enter(op, self, in)
    IN  IF f.pc = "native" THEN Returned(Called(f, nat)) ELSE f

\* The frames of the calls that have returned to their caller.
Done(t, op) == thr[t].pc = "idle" /\ thr[t].op = op

\* The kinds of the outputs of each operation, in the order returned.
OutKinds(op) ==
    CASE op \in {"keypair", "keypair_async"} -> <<"pk", "sk">>
      [] op \in {"encapsulate", "async_encapsulate"} -> <<"ct", "ss">>
      [] op = "encapsulate_ciphertext" -> <<"ct", "es">>
      [] op \in {"encapsulate_shared_secret", "decapsulate"} -> <<"ss">>

\* The encapsulations behind a decapsulate(sk, ct) frame f: the frames of
\* encapsulate or async_encapsulate calls that returned Ok with f's ct, on
\* the pk of a keypair or keypair_async call of the same handle that
\* returned Ok with f's sk.
EncapsBehind(f) ==
    LET self == HandleAt(f.kem)
        pairs == {kp \in {Run(kop, self, NoIn, n) :
                            kop \in {"keypair", "keypair_async"},
                            n \in Nats("keypair")} :
                    kp.res = "Ok" /\ Bytes(kp.outs[2]) = f.in.sk}
        encs == UNION {{Run(eop, self, [NoIn EXCEPT !.pk = Bytes(kp.outs[1])],
                            n) :
                          eop \in {"encapsulate", "async_encapsulate"},
                          n \in Nats("encaps")} : kp \in pairs}
    IN  {en \in encs : en.res = "Ok" /\ Bytes(en.outs[1]) = f.in.ct}

\* C1: round trip.  A decapsulate(sk, ct) that has returned, with sk from
\* keypair or keypair_async and ct from encapsulate or async_encapsulate
\* on the matching pk of the same handle, returned Ok with a shared secret
\* byte-equal to the one the encapsulation returned.
C1_RoundTrip ==
    \A t \in Threads :
      Done(t, "decapsulate") =>
        \A en \in EncapsBehind(thr[t]) :
          /\ thr[t].res = "Ok"
          /\ Len(thr[t].outs) = 1
          /\ Bytes(thr[t].outs[1]) = Bytes(en.outs[2])

\* Such a decapsulate has returned the non-zero shared secret of its
\* encapsulation.
C1_Witness ==
    \E t \in Threads :
      /\ Done(t, "decapsulate")
      /\ thr[t].res = "Ok"
      /\ \E en \in EncapsBehind(thr[t]) :
           /\ Bytes(thr[t].outs[1]) = Bytes(en.outs[2])
           /\ First(Bytes(en.outs[2])) = 1

\* C2: length validation before the native call.  A pipeline call with an
\* input whose length is not the handle's declared length for its kind
\* never reaches the native entry point: it has returned InvalidLength,
\* with no native invocation and no output buffer.
C2_LengthValidation ==
    \A t \in Threads :
      (thr[t].op \in Ops /\ thr[t].bad # {}) =>
        /\ thr[t].pc = "idle"
        /\ thr[t].res = "InvalidLength"
        /\ thr[t].calls = 0
        /\ thr[t].outs = <<>>

\* A finalisation whose only malformed input is the ephemeral secret, of a
\* length that another algorithm's handle declares for that kind.
C2_Witness ==
    \E t \in Threads :
      /\ Done(t, "encapsulate_shared_secret")
      /\ thr[t].bad = {"es"}
      /\ thr[t].res = "InvalidLength"
      /\ \E id \in Ids :
           OQS_KEM(id).length_ephemeral_secret = Len(thr[t].in.es)

\* C3: output lengths.  Every buffer a successful pipeline call returns has
\* exactly the declared length of its kind, and the call returns one
\* buffer per output.
C3_OutputLengths ==
    \A t \in Threads :
      (thr[t].op \in Ops /\ thr[t].pc = "idle" /\ thr[t].res = "Ok") =>
        /\ Len(thr[t].outs) = Len(OutKinds(thr[t].op))
        /\ \A i \in 1 .. Len(thr[t].outs) :
             /\ thr[t].outs[i].len =
                  Declared(descs[thr[t].kem].d, OutKinds(thr[t].op)[i])
             /\ Len(Bytes(thr[t].outs[i])) =
                  Declared(descs[thr[t].kem].d, OutKinds(thr[t].op)[i])

\* A successful split encapsulation whose two outputs differ in length.
C3_Witness ==
    \E t \in Threads :
      /\ Done(t, "encapsulate_ciphertext")
      /\ thr[t].res = "Ok"
      /\ Len(Bytes(thr[t].outs[1])) # Len(Bytes(thr[t].outs[2]))

\* A step in which Kem::new returned.
NewReturned ==
    /\ handle' # handle
    /\ handle'.st \in {"live", "disabled"}

\* C4: Kem::new(tag) returns AlgorithmDisabled exactly when the native
\* acquisition yields the null pointer; then there is no handle, no
\* descriptor was allocated and the release function was not called.
\* Otherwise it returns a handle that holds the non-null descriptor just
\* acquired.  A handle never holds a null or unallocated descriptor.
C4_NewOrDisabled ==
    /\ [](handle.st = "live" =>
            /\ handle.kem # NullPtr
            /\ descs[handle.kem].st = "live")
    /\ [](handle.st = "disabled" => handle.kem = NullPtr)
    /\ [][NewReturned =>
            LET kem == OQS_KEM_new(algorithm_to_id(handle'.req))
            IN  /\ handle'.st = "disabled" <=> kem = NullPtr
                /\ handle'.st = "disabled" => descs' = descs
                /\ handle'.st = "live" =>
                     /\ handle'.kem = kem
                     /\ descs'[kem].st = "live"
                     /\ descs'[kem].frees = 0
                     /\ \A p \in DescPtrs \ {kem} : descs'[p] = descs[p]]_vars

\* Kem::new has failed for a tag that is not in the build, and nothing is
\* allocated.
C4_Witness ==
    /\ handle.st = "disabled"
    /\ algorithm_to_id(handle.req) \notin enabled
    /\ \A p \in DescPtrs : descs[p].st = "unalloc"

\* C5: handle lifecycle.  Every acquired descriptor is released at most
\* once; it is unreleased exactly while the handle that owns it exists and
\* released exactly once after that handle's destruction, whatever ran on
\* the handle; a release happens only in the step that destroys the
\* owning handle; and a call that has reached the native entry point
\* works on a descriptor that has not been released.
C5_ReleasedOnce ==
    /\ [](\A p \in DescPtrs :
            /\ descs[p].frees <= 1
            /\ descs[p].st = "unalloc" => descs[p].frees = 0
            /\ descs[p].st = "live" =>
                 /\ descs[p].frees = 0
                 /\ handle.st = "live" /\ handle.kem = p
            /\ descs[p].st = "freed" =>
                 /\ descs[p].frees = 1
                 /\ ~(handle.st = "live" /\ handle.kem = p))
    /\ [](handle.st = "live" => descs[handle.kem].st = "live")
    /\ [](handle.st = "dropped" => descs[handle.kem].frees = 1)
    /\ [](\A t \in Threads :
            thr[t].pc \in {"native", "returned"} =>
              descs[thr[t].kem].st = "live")
    /\ [][\A p \in DescPtrs :
            descs'[p].frees # descs[p].frees =>
              /\ handle.st = "live" /\ handle.kem = p
              /\ handle'.st = "dropped"]_vars

\* A handle was destroyed after a call on it had failed in native code,
\* and its descriptor has been released once.
C5_Witness ==
    /\ handle.st = "dropped"
    /\ descs[handle.kem].frees = 1
    /\ \E t \in Threads :
         /\ thr[t].kem = handle.kem
         /\ thr[t].res = "OperationFailed"
         /\ thr[t].calls = 1

\* C6: status handling.  A pipeline call whose inputs pass the length
\* checks invokes the native entry point exactly once; it returns
\* OperationFailed and no buffer when the status is not zero, and Ok with
\* every output of the operation when it is zero.
C6_StatusHandling ==
    \A t \in Threads :
      (thr[t].op \in Ops /\ thr[t].bad = {}) =>
        /\ thr[t].calls <= 1
        /\ thr[t].pc = "native" => thr[t].calls = 0
        /\ thr[t].pc = "returned" => thr[t].calls = 1
        /\ thr[t].pc = "idle" =>
             /\ thr[t].calls = 1
             /\ thr[t].status # OQS_SUCCESS =>
                  (thr[t].res = "OperationFailed" /\ thr[t].outs = <<>>)
             /\ thr[t].status = OQS_SUCCESS =>
                  /\ thr[t].res = "Ok"
                  /\ Len(thr[t].outs) = Len(OutKinds(thr[t].op))

\* An encapsulation has returned OperationFailed after one native call
\* that reported an error.
C6_Witness ==
    \E t \in Threads :
      /\ Done(t, "encapsulate")
      /\ thr[t].bad = {}
      /\ thr[t].status # OQS_SUCCESS
      /\ thr[t].res = "OperationFailed"
      /\ thr[t].calls = 1

\* The decapsulations that answer an encapsulate_shared_secret(ct, es, pk)
\* frame f: for every keypair of the same handle that returned f's pk
\* with a secret key sk, and every encapsulate_ciphertext on that pk that
\* returned f's ct and es, the frame of decapsulate(sk, ct).
DecapsFor(f) ==
    LET self == HandleAt(f.kem)
        pairs == {kp \in {Run(kop, self, NoIn, n) :
                            kop \in {"keypair", "keypair_async"},
                            n \in Nats("keypair")} :
                    kp.res = "Ok" /\ Bytes(kp.outs[1]) = f.in.pk}
        split == {sp \in {Run("encapsulate_ciphertext", self,
                              [NoIn EXCEPT !.pk = f.in.pk], n) :
                            n \in Nats("encaps_ciphertext")} :
                    /\ sp.res = "Ok"
                    /\ Bytes(sp.outs[1]) = f.in.ct
                    /\ Bytes(sp.outs[2]) = f.in.es}
    IN  IF split = {} THEN {}
        ELSE {Run("decapsulate", self,
                  [NoIn EXCEPT !.sk = Bytes(kp.outs[2]), !.ct = f.in.ct],
                  NoNat) : kp \in pairs}

\* C7: split-path equivalence.  An encapsulate_shared_secret(ct, es, pk)
\* that has returned, with pk from keypair and (ct, es) from
\* encapsulate_ciphertext(pk) on the same handle, returned Ok with a
\* shared secret byte-equal to the one decapsulate(sk, ct) returns.
C7_SplitPath ==
    \A t \in Threads :
      Done(t, "encapsulate_shared_secret") =>
        \A de \in DecapsFor(thr[t]) :
          /\ thr[t].res = "Ok"
          /\ de.res = "Ok"
          /\ Len(thr[t].outs) = 1
          /\ Bytes(thr[t].outs[1]) = Bytes(de.outs[1])

\* Such a finalisation has returned the shared secret of the
\* decapsulation; its pk and es differ in their first byte.
C7_Witness ==
    \E t \in Threads :
      /\ Done(t, "encapsulate_shared_secret")
      /\ thr[t].res = "Ok"
      /\ First(thr[t].in.pk) # First(thr[t].in.es)
      /\ \E de \in DecapsFor(thr[t]) :
           Bytes(thr[t].outs[1]) = Bytes(de.outs[1])

\* C8: the factories.  A *_from_bytes(buf) call on a handle returns None
\* exactly when the length of buf is not the handle's declared length for
\* the kind, and otherwise a view whose bytes are those of buf.
C8_Factories ==
    \A t \in Threads :
      Done(t, "from_bytes") =>
        LET buf == thr[t].in[thr[t].kind]
            declared == Declared(descs[thr[t].kem].d, thr[t].kind)
        IN  /\ thr[t].view = None <=> Len(buf) # declared
            /\ thr[t].view # None =>
                 /\ Len(thr[t].view) = 1
                 /\ thr[t].view[1].bytes = buf

\* A slice of the handle's secret-key length, which is not its
\* shared-secret length, was refused as a shared secret.
C8_Witness ==
    \E t \in Threads :
      /\ Done(t, "from_bytes")
      /\ thr[t].kind = "ss"
      /\ thr[t].view = None
      /\ Len(thr[t].in["ss"]) = descs[thr[t].kem].d.length_secret_key

\* C9: catalog and creation agree.  Whenever Kem::new(tag) has returned,
\* it succeeded exactly if is_enabled(tag) holds, and the handle it
\* returned reports algorithm() = tag.
C9_EnabledIffCreated ==
    /\ handle.st \in {"live", "dropped"} =>
         /\ is_enabled(handle.req)
         /\ algorithm(handle) = handle.req
    /\ handle.st = "disabled" => ~is_enabled(handle.req)

\* A handle of an enabled tag is held, on a build that lacks another tag.
C9_Witness ==
    /\ handle.st = "live"
    /\ is_enabled(handle.req)
    /\ algorithm(handle) = "Kyber512"
    /\ \E a \in Algorithm : ~is_enabled(a)

\* The frame a call has when it runs by itself, at the point the frame f
\* has reached.
AloneFrames(f) ==
    LET entered == Enter(f.op, HandleAt(f.kem), f.in)
    IN  CASE f.pc = "native" -> {entered}
          [] f.pc = "returned" -> {Called(entered, f.nat)}
          [] f.pc = "idle" ->
               {Run(f.op, HandleAt(f.kem), f.in, nat) :
                  nat \in Nats(EntryOf(f.op))}

\* C10: shared handle.  While threads run pipeline operations on one handle
\* in any interleaving, no step of an operation changes the handle or any
\* descriptor, a step of one call changes no other call's frame and no
\* input of its own, and every call is, at each point, exactly where it
\* would be had it run alone on its inputs.
C10_SharedHandle ==
    /\ [](\A t \in Threads :
            thr[t].op \in Ops => thr[t] \in AloneFrames(thr[t]))
    /\ [][\A t \in Threads :
            thr'[t] # thr[t] =>
              /\ handle' = handle
              /\ descs' = descs
              /\ \A u \in Threads \ {t} : thr'[u] = thr[u]
              /\ thr[t].pc # "idle" =>
                   /\ thr'[t].in = thr[t].in
                   /\ thr'[t].kem = thr[t].kem
                   /\ thr'[t].op = thr[t].op]_vars

\* Two calls of the same operation overlap: one has come back from native
\* code with its outputs written, the other has not made its call yet.
C10_Witness ==
    \E t \in Threads, u \in Threads :
      /\ t # u
      /\ thr[t].op = "encapsulate" /\ thr[u].op = "encapsulate"
      /\ thr[t].pc = "returned" /\ thr[t].status = OQS_SUCCESS
      /\ thr[u].pc = "native"
      /\ thr[t].in # thr[u].in

\* What the holder of output i of frame f can read of it.
Exposed(f, i) == f.outs[i].len

\* C11: two-phase construction.  From its reservation until the native
\* call has returned, every output buffer of a pipeline call has the
\* declared length of its kind as capacity and logical length 0; the
\* length advances only in the step that follows a native call that
\* returned success, and then to the declared length; after any other
\* status the caller gets no buffer, so a buffer with bytes to read is
\* observable only after a successful native call.
C11_TwoPhase ==
    /\ [](\A t \in Threads :
            (thr[t].op \in Ops /\ thr[t].pc \in {"native", "returned"}) =>
              /\ Len(thr[t].outs) = Len(OutKinds(thr[t].op))
              /\ \A i \in 1 .. Len(thr[t].outs) :
                   /\ thr[t].outs[i].cap =
                        Declared(descs[thr[t].kem].d, OutKinds(thr[t].op)[i])
                   /\ Exposed(thr[t], i) = 0
                   /\ Bytes(thr[t].outs[i]) = <<>>)
    /\ [](\A t \in Threads :
            (thr[t].op \in Ops /\ thr[t].pc = "native") =>
              \A i \in 1 .. Len(thr[t].outs) :
                \A j \in 1 .. thr[t].outs[i].cap :
                  thr[t].outs[i].mem[j] = Uninit)
    /\ [](\A t \in Threads :
            (thr[t].op \in Ops /\ thr[t].pc = "idle") =>
              /\ thr[t].res # "Ok" => thr[t].outs = <<>>
              /\ \A i \in 1 .. Len(thr[t].outs) :
                   Exposed(thr[t], i) > 0 =>
                     /\ thr[t].calls = 1
                     /\ thr[t].status = OQS_SUCCESS)
    /\ [][\A t \in Threads :
            (/\ thr[t].pc # "idle"
             /\ \E i \in 1 .. Len(thr'[t].outs) :
                  i > Len(thr[t].outs) \/ Exposed(thr'[t], i) # Exposed(thr[t], i)) =>
              /\ thr[t].pc = "returned"
              /\ thr[t].status = OQS_SUCCESS
              /\ thr'[t].pc = "idle"
              /\ \A i \in 1 .. Len(thr'[t].outs) :
                   Exposed(thr'[t], i) =
                     Declared(descs[thr[t].kem].d, OutKinds(thr[t].op)[i])]_vars

\* A native call has filled both reserved buffers and then reported an
\* error: the buffers hold bytes, and their logical length is still 0.
C11_Witness ==
    \E t \in Threads :
      /\ thr[t].op = "encapsulate"
      /\ thr[t].pc = "returned"
      /\ thr[t].status # OQS_SUCCESS
      /\ \A i \in 1 .. 2 :
           /\ thr[t].outs[i].cap > 0
           /\ thr[t].outs[i].len = 0
           /\ \A j \in 1 .. thr[t].outs[i].cap : thr[t].outs[i].mem[j] # Uninit

\* C12: init() and deinit() on any handle, whether or not its algorithm
\* defines a setup/teardown hook, complete with Ok or OperationFailed,
\* OperationFailed exactly when the native hook reported a status other
\* than success; they release nothing: the descriptor of the handle they
\* ran on is live and unreleased for as long as the handle is held.
C12_InitDeinit ==
    \A t \in Threads :
      (thr[t].op \in Hooks /\ thr[t].pc = "idle") =>
        /\ thr[t].res \in {"Ok", "OperationFailed"}
        /\ thr[t].res = "OperationFailed" <=>
             (thr[t].calls = 1 /\ thr[t].status # OQS_SUCCESS)
        /\ (handle.st = "live" /\ handle.kem = thr[t].kem) =>
             /\ descs[thr[t].kem].st = "live"
             /\ descs[thr[t].kem].frees = 0

====
